---- MODULE Spec2Model ----
(***************************************************************************)
(* proxy-harold: a caching CORS proxy.                                     *)
(*                                                                         *)
(* Two specifications over one state:                                      *)
(*   Spec       the per-IP token-bucket limiter (internal/ratelimit),      *)
(*              with getLimiter's locking steps interleaved between        *)
(*              concurrent Allow calls;                                    *)
(*   SpecProxy  the request pipeline: Middleware, ProxyHandler.ServeHTTP,  *)
(*              Fetcher and BadgerCache, one process per request.          *)
(*                                                                         *)
(* Time is counted in ticks.  A bucket counts tokens in units of 1/Scale   *)
(* of a token, and the rate is a whole number of such units per tick, so   *)
(* the continuous refill of the token bucket is computed exactly.          *)
(***************************************************************************)
EXTENDS Integers, Sequences, FiniteSets, TLC

\* ------------------------------------------------------------------ bounds
Scale    == 2   \* sub-units per token
MaxRate  == 2   \* largest rate, in sub-units per tick
MaxBurst == 2   \* largest burst size
MaxTime  == 2   \* the clock stops here
MaxCalls == 3   \* Allow calls made in one run of Spec
NProcs   == 2   \* goroutines calling Allow concurrently
MaxReqs  == 2   \* requests received in one run of SpecProxy
TTL      == 2   \* the cache's time-to-live, in ticks
MaxSize  == 2   \* the fetcher's maximum response size, in bytes
FetchTimeout == 2  \* the http.Client's Timeout, in ticks

IPs   == {"ip1", "ip2"}
Procs == 1..NProcs
NoLimiter == 0  \* a nil *rate.Limiter / an absent map entry

VARIABLES
    rate,      \* rl.rate: sub-units per tick
    burst,     \* rl.burst
    limiters,  \* rl.limiters: ip -> index into heap, NoLimiter when absent
    heap,      \* the rate.Limiter objects allocated so far
    mu,        \* rl.mu: the goroutine holding the write lock, 0 when free
    now,       \* the clock
    pc,        \* where each goroutine stands in Allow
    arg,       \* the ip each goroutine was called with
    lim,       \* getLimiter's local, the limiter it found
    via,       \* history: how getLimiter came by it: "fast", "recheck" or "new"
    calls,     \* history: per ip, the Allow calls in the order they took effect
    ncalls,    \* history: number of Allow calls started
    db,        \* the BadgerDB store: cache key -> <<>> or <<entry>>
    req,       \* the request each server goroutine is handling, and its response
    nreqs,     \* history: number of requests received
    recent,    \* history: per ip, the instant of its first request and the
               \* results of the Allow calls Middleware made for it then
    ft,        \* one upstream fetch followed step by step: Fetch, the body
               \* read and the store, with the http.Client's redirects and timer
    cx,        \* a client of the cache: its last operation and what it returned
    cl,        \* the cleanupLoop goroutine, its ticker and the done channel
    env        \* the environment main was started in

rlVars == <<rate, burst, limiters, heap, mu>>
goVars == <<pc, arg, lim, via, ncalls>>
proxyVars == <<db, req, nreqs, recent>>
auxVars == <<ft, cx, cl, env>>

\* ------------------------------------------------- rate.Limiter (one bucket)

Min(a, b) == IF a < b THEN a ELSE b

\* rate.NewLimiter(r, b): a full bucket.
NewLimiter(r, b) ==
    [limit |-> r, burst |-> b, tokens |-> b * Scale, last |-> 0]

\* Limiter.advance: the tokens the bucket holds at time t, capped at burst.
Advance(l, t) ==
    LET elapsed == IF t < l.last THEN 0 ELSE t - l.last
    IN  Min(l.burst * Scale, l.tokens + elapsed * l.limit)

\* Mutant: every call is admitted.
AllowOk_Always(l, t) == TRUE

\* Limiter.Allow at time t: whether one token is there to take.
AllowOk(l, t) == Advance(l, t) - Scale >= 0

\* Mutant: a denied call is charged a token too.
AllowNext_Always(l, t) ==
    [l EXCEPT !.tokens = Advance(l, t) - Scale, !.last = t]

\* Limiter.Allow at time t: the bucket afterwards; a denial changes nothing.
AllowNext(l, t) ==
    IF AllowOk(l, t)
    THEN [l EXCEPT !.tokens = Advance(l, t) - Scale, !.last = t]
    ELSE l

\* ------------------------------------------------------------ IPRateLimiter

\* NewIPRateLimiter(r, burst): the fields of the new limiter.
NewIPRateLimiter(r, b) ==
    [rate |-> r, burst |-> b, limiters |-> [ip \in IPs |-> NoLimiter]]

\* Mutant: every ip is filed under one key.
LimiterKey_Shared(ip) == "ip1"

\* The key getLimiter looks up and stores under: the ip itself.
LimiterKey(ip) == ip

\* Mutant: the double-check is left out.
DoubleCheck_Skipped(ip) == NoLimiter

\* getLimiter's double-check under the write lock: the entry already there,
\* if any.
DoubleCheck(ip) == limiters[LimiterKey(ip)]

\* Mutant: the new limiter is given one token too many.
CreateLimiter_BurstPlusOne == NewLimiter(rate, burst + 1)

\* Mutant: the new limiter is not given the configured rate.
CreateLimiter_NoRate == NewLimiter(0, burst)

\* getLimiter: the limiter it creates for an ip it has not seen.
CreateLimiter == NewLimiter(rate, burst)

\* --------------------------------------------------------- Fetcher (proxy)

\* The strings a request can carry in its url parameter ("" when it has none).
URLStrings == {"", "javascript:alert(1)", "https://example.com"}

\* The strings ValidateURL and Fetch are tried on: those above, the other
\* cases of TestFetcher_ValidatesURL, an upper-case URL, one with no host
\* and one that does not parse.
URLSamples ==
    URLStrings \cup
    {"http://example.com", "HTTPS://EXAMPLE.COM", "ftp://example.com",
     "data:text/html,<h1>test</h1>", "example.com", "/path/to/resource",
     "http://", "http://[::1"}

\* url.Parse, on the strings above: the scheme is lower-cased, a URL without
\* "//" after its scheme is opaque and has no host, a string without a
\* scheme is a path, and an unclosed "[" in the host is an error.
ParseURL(u) ==
    CASE u = "https://example.com" ->
             [err |-> FALSE, scheme |-> "https", host |-> "example.com"]
      [] u = "http://example.com" ->
             [err |-> FALSE, scheme |-> "http", host |-> "example.com"]
      [] u = "HTTPS://EXAMPLE.COM" ->
             [err |-> FALSE, scheme |-> "https", host |-> "EXAMPLE.COM"]
      [] u = "ftp://example.com" ->
             [err |-> FALSE, scheme |-> "ftp", host |-> "example.com"]
      [] u = "javascript:alert(1)" ->
             [err |-> FALSE, scheme |-> "javascript", host |-> ""]
      [] u = "data:text/html,<h1>test</h1>" ->
             [err |-> FALSE, scheme |-> "data", host |-> ""]
      [] u = "http://" ->
             [err |-> FALSE, scheme |-> "http", host |-> ""]
      [] u = "http://[::1" ->
             [err |-> TRUE, scheme |-> "", host |-> ""]
      [] OTHER -> [err |-> FALSE, scheme |-> "", host |-> ""]

\* Mutant: every URL is accepted.
ValidateURL_AcceptAll(rawURL) == ""

\* Mutant: the host is checked before the scheme.
ValidateURL_HostFirst(rawURL) ==
    IF rawURL = "" THEN "invalid URL"
    ELSE IF ParseURL(rawURL).err THEN "invalid URL: parse error"
    ELSE IF ParseURL(rawURL).host = "" THEN "invalid URL"
    ELSE IF ParseURL(rawURL).scheme # "http" /\ ParseURL(rawURL).scheme # "https"
         THEN "URL scheme must be http or https"
    ELSE ""

\* Fetcher.ValidateURL: "" when the URL is accepted, else the error.
ValidateURL(rawURL) ==
    IF rawURL = "" THEN "invalid URL"
    ELSE IF ParseURL(rawURL).err THEN "invalid URL: parse error"
    ELSE IF ParseURL(rawURL).scheme # "http" /\ ParseURL(rawURL).scheme # "https"
         THEN "URL scheme must be http or https"
    ELSE IF ParseURL(rawURL).host = "" THEN "invalid URL"
    ELSE ""

\* Response bodies: a small one, and one longer than the maximum size.
SmallBody == <<"a">>
BigBody == [i \in 1..(MaxSize + 1) |-> "x"]

\* A body of exactly the maximum size.
FullBody == [i \in 1..MaxSize |-> "y"]

\* Content-Type headers an upstream sends: none, a plain one, and one holding
\* a byte that is not valid UTF-8 (header values may hold obs-text bytes).
JsonCT == "application/json"
RawCT == "text/plain; charset=<0xFF>"

\* An upstream response: status, Content-Length declared or not, body,
\* Content-Type, and whether reading the body fails midway.
Resp(status, declared, body, ct, readErr) ==
    [kind |-> "resp", status |-> status, declared |-> declared, body |-> body,
     ct |-> ct, readErr |-> readErr]

\* What the upstream does with a GET: client.Do fails, or a response arrives.
\* The responses: a small body under each content type, an error status, a
\* big body with and without a declared length, and a body that breaks off.
Upstream ==
    {[kind |-> k] : k \in {"connection refused", "timeout", "too many redirects"}}
    \cup {Resp(200, TRUE, SmallBody, ct, FALSE) : ct \in {"", JsonCT, RawCT}}
    \cup {Resp(404, TRUE, SmallBody, JsonCT, FALSE),
          Resp(200, TRUE, BigBody, JsonCT, FALSE),
          Resp(200, FALSE, BigBody, JsonCT, FALSE),
          Resp(200, TRUE, SmallBody, JsonCT, TRUE)}

\* Mutant: the declared length is not looked at.
ContentLength_Unknown(up) == -1

\* resp.ContentLength: -1 when the upstream declares none.
ContentLength(up) == IF up.declared THEN Len(up.body) ELSE -1

\* Mutant: a length equal to the maximum is rejected too.
TooBig_OrEqual(length) == length >= MaxSize

\* Fetch's test on the length: resp.ContentLength > f.maxSize.
TooBig(length) == length > MaxSize

\* The number of earlier requests at which CheckRedirect gives up.
MaxRedirects == 10

\* NewFetcher's CheckRedirect(req, via), given len(via): "" to follow the
\* redirect, else the error.
CheckRedirect(lenVia) ==
    IF lenVia >= MaxRedirects THEN "too many redirects" ELSE ""

\* Fetcher.Fetch: err is "" and resp the response, or err is the error.
Fetch(rawURL, up) ==
    IF ValidateURL(rawURL) # "" THEN [err |-> ValidateURL(rawURL)]
    ELSE IF up.kind # "resp" THEN [err |-> "failed to fetch URL: " \o up.kind]
    ELSE IF TooBig(ContentLength(up))
         THEN [err |-> "response exceeds maximum allowed size"]
    ELSE [err |-> "", resp |-> up]

\* ----------------------------------------------------- BadgerCache (cache)

\* GenerateCacheKey: the SHA-256 of the URL, taken to be free of collisions.
GenerateCacheKey(url) == <<"sha256", url>>

CacheKeys == {GenerateCacheKey(u) : u \in URLSamples}

\* encoding/json on a string: coerced to valid UTF-8, an invalid byte
\* becoming U+FFFD.
CoerceUTF8(str) == IF str = RawCT THEN "text/plain; charset=<U+FFFD>" ELSE str

\* encoding/json on a []byte: base64 and back.
Base64(data) == <<"base64", data>>

\* Mutant: the text is not decoded.
UnBase64_Raw(text) == text

UnBase64(text) == text[2]

\* json.Marshal(CachedResponse{Data, ContentType}).
Marshal(response) ==
    [data |-> Base64(response.Data),
     content_type |-> CoerceUTF8(response.ContentType)]

\* json.Unmarshal(val, &response).
Unmarshal(val) ==
    [Data |-> UnBase64(val.data), ContentType |-> val.content_type]

\* Mutant: no entry ever expires.
Expired_Never(entry, t) == FALSE

\* badger: an entry is gone once its expiry time has come (0: never expires).
Expired(entry, t) == entry.expiresAt # 0 /\ entry.expiresAt <= t

\* BadgerCache.Get at time t: (nil, err) when the store fails with an I/O
\* error (fault), (nil, nil) when the key is absent or expired, else the
\* decoded response.  A nil response is given empty fields.
CacheGet(store, url, t, fault) ==
    LET item == store[GenerateCacheKey(url)]
    IN  IF fault
        THEN [found |-> FALSE, err |-> TRUE, data |-> <<>>, contentType |-> ""]
        ELSE IF item = <<>> \/ Expired(item[1], t)
        THEN [found |-> FALSE, err |-> FALSE, data |-> <<>>, contentType |-> ""]
        ELSE [found |-> TRUE, err |-> FALSE,
              data |-> Unmarshal(item[1].val).Data,
              contentType |-> Unmarshal(item[1].val).ContentType]

\* Mutant: a Set over an entry writes the body and leaves the entry's content
\* type as it was.
CacheSet_KeepType(store, url, data, contentType, t, fault, origin) ==
    IF fault THEN store
    ELSE [store EXCEPT ![GenerateCacheKey(url)] =
              <<[val |-> [data |-> Base64(data),
                          content_type |->
                              IF @ = <<>> THEN CoerceUTF8(contentType)
                              ELSE @[1].val.content_type],
                 expiresAt |-> t + TTL,
                 written |-> t,
                 origin |-> origin]>>]

\* BadgerCache.Set at time t: the store afterwards.  fault: the update fails
\* and writes nothing.  written and origin are history: when the entry was
\* written, and by whom.
CacheSet(store, url, data, contentType, t, fault, origin) ==
    IF fault THEN store
    ELSE [store EXCEPT ![GenerateCacheKey(url)] =
              <<[val |-> Marshal([Data |-> data, ContentType |-> contentType]),
                 expiresAt |-> t + TTL,
                 written |-> t,
                 origin |-> origin]>>]

\* BadgerCache.Delete: the store afterwards.
CacheDelete(store, url) == [store EXCEPT ![GenerateCacheKey(url)] = <<>>]

EmptyDB == [k \in CacheKeys |-> <<>>]

\* A store left by an earlier run: an entry under every key, written a
\* time-to-live before tick 2.
PreloadedDB ==
    [k \in CacheKeys |->
        <<[val |-> Marshal([Data |-> SmallBody, ContentType |-> JsonCT]),
           expiresAt |-> 2,
           written |-> 2 - TTL,
           origin |-> [by |-> "earlier run", status |-> 200,
                       body |-> SmallBody, contentType |-> JsonCT]]>>]

\* ------------------------------------------------------ requests, responses

\* The server goroutines handling requests, in the order they are taken.
Reqs == {1, 2}

\* The client the requests of SpecProxy come from (extractIP's result).
Clients == {"ip1"}
Methods == {"GET", "OPTIONS"}

\* The requests a client sends: a GET with each url parameter, and a
\* preflight with none and with a valid one.
Requests ==
    {[method |-> "GET", url |-> u] : u \in URLStrings}
    \cup {[method |-> "OPTIONS", url |-> u] : u \in {"", "https://example.com"}}

NoHeaders ==
    [cors |-> "", contentType |-> "", xcache |-> "", retryAfter |-> "",
     remaining |-> ""]

\* History kept with a request: what Allow returned, whether the cache held
\* a live entry for its url when it looked, the errors the store raised, the
\* upstream's answer, and the origin of the entry a hit was served from.
NoHist ==
    [ok |-> FALSE, live |-> FALSE, getErr |-> FALSE, setErr |-> FALSE,
     up |-> <<>>, from |-> <<>>]

\* A server goroutine with no request.

IdleReq ==
    [pc |-> "idle", ip |-> "ip1", method |-> "GET", url |-> "",
     status |-> 0, hdr |-> NoHeaders, body |-> <<>>, trace |-> <<>>,
     hist |-> NoHist]

\* sendError's body: json.NewEncoder(w).Encode(ErrorResponse{message, code}).
ErrorBody(message, code) == <<"json", [error |-> message, code |-> code]>>

\* No fetch is being followed.
IdleFetch ==
    [pc |-> "idle", url |-> "", up |-> <<>>, t0 |-> 0, hops |-> 0, read |-> 0,
     err |-> "", net |-> FALSE, closed |-> FALSE, cancelled |-> FALSE,
     status |-> 0, stored |-> FALSE]

\* The cache's client has done nothing yet.
IdleCacheOp ==
    [op |-> "none", url |-> "", at |-> 0, res |-> <<>>, put |-> <<>>,
     fault |-> FALSE]

\* A cache no caller has used yet: the last call, the one before it, the urls
\* stored so far and the number of calls made; log is history, the requests
\* the handlers have finished.
IdleCache ==
    [last |-> IdleCacheOp, prev |-> IdleCacheOp, stored |-> {}, n |-> 0,
     log |-> <<>>]

\* The environment main runs in when nothing is set: RATE_LIMIT is not set
\* (the empty string), and a read from standard input succeeds.
DefaultEnv == [RATE_LIMIT |-> "", stdin |-> TRUE]

\* cleanupLoop waiting in its select, no tick pending, done not closed.
\* at is history: where the loop was when Cleanup was called.
IdleLoop == [pc |-> "select", tick |-> FALSE, done |-> FALSE, at |-> "none"]

\* The limiter as NewIPRateLimiter returns it, for a rate of zero, the
\* slowest positive rate or the fastest one, and each burst.
Init ==
    /\ \E r \in {0, 1, MaxRate}, b \in 1..MaxBurst :
          /\ rate = NewIPRateLimiter(r, b).rate
          /\ burst = NewIPRateLimiter(r, b).burst
          /\ limiters = NewIPRateLimiter(r, b).limiters
    /\ heap = <<>>
    /\ mu = 0
    /\ now = 1
    /\ pc = [p \in Procs |-> "idle"]
    /\ arg = [p \in Procs |-> "ip1"]
    /\ lim = [p \in Procs |-> NoLimiter]
    /\ via = [p \in Procs |-> "none"]
    /\ calls = [ip \in IPs |-> <<>>]
    /\ ncalls = 0
    /\ db = EmptyDB
    /\ req = [r \in Reqs |-> IdleReq]
    /\ nreqs = 0
    /\ recent = [ip \in IPs |-> [at |-> 0, oks |-> <<>>]]
    /\ ft = IdleFetch
    /\ cx = IdleCache
    /\ cl = IdleLoop
    /\ env = DefaultEnv

\* A goroutine calls Allow(ip).  Goroutines are interchangeable: the call is
\* run by the first one that is free.  So are identities: the one called
\* first is named ip1.
Call(p, ip) ==
    /\ pc[p] = "idle"
    /\ \A q \in Procs : q < p => pc[q] # "idle"
    /\ ncalls = 0 => ip = "ip1"
    /\ ncalls < MaxCalls
    /\ pc' = [pc EXCEPT ![p] = "read"]
    /\ arg' = [arg EXCEPT ![p] = ip]
    /\ ncalls' = ncalls + 1
    /\ UNCHANGED <<proxyVars, auxVars>>
    /\ UNCHANGED <<rlVars, now, lim, via, calls>>

\* getLimiter: RLock, look the ip up, RUnlock; return the limiter if it exists.
GetLimiterRead(p) ==
    /\ pc[p] = "read"
    /\ mu = 0
    /\ LET l == limiters[LimiterKey(arg[p])]
       IN  IF l # NoLimiter
           THEN /\ lim' = [lim EXCEPT ![p] = l]
                /\ via' = [via EXCEPT ![p] = "fast"]
                /\ pc' = [pc EXCEPT ![p] = "allow"]
           ELSE /\ UNCHANGED <<lim, via>>
                /\ pc' = [pc EXCEPT ![p] = "lock"]
    /\ UNCHANGED <<proxyVars, auxVars>>
    /\ UNCHANGED <<rlVars, now, arg, calls, ncalls>>

\* getLimiter: rl.mu.Lock().
GetLimiterLock(p) ==
    /\ pc[p] = "lock"
    /\ mu = 0
    /\ mu' = p
    /\ pc' = [pc EXCEPT ![p] = "create"]
    /\ UNCHANGED <<proxyVars, auxVars>>
    /\ UNCHANGED <<rate, burst, limiters, heap, now, arg, lim, via, calls, ncalls>>

\* getLimiter under the write lock: double-check, create and store the
\* limiter if it is still absent, and unlock (deferred).
GetLimiterCreate(p) ==
    /\ pc[p] = "create"
    /\ mu = p
    /\ LET l == DoubleCheck(arg[p])
       IN  IF l # NoLimiter
           THEN /\ lim' = [lim EXCEPT ![p] = l]
                /\ via' = [via EXCEPT ![p] = "recheck"]
                /\ UNCHANGED <<heap, limiters>>
           ELSE /\ heap' = Append(heap, CreateLimiter)
                /\ limiters' = [limiters EXCEPT ![LimiterKey(arg[p])] = Len(heap) + 1]
                /\ lim' = [lim EXCEPT ![p] = Len(heap) + 1]
                /\ via' = [via EXCEPT ![p] = "new"]
    /\ mu' = 0
    /\ pc' = [pc EXCEPT ![p] = "allow"]
    /\ UNCHANGED <<proxyVars, auxVars>>
    /\ UNCHANGED <<rate, burst, now, arg, calls, ncalls>>

\* Allow: limiter.Allow() on the limiter getLimiter returned.
LimiterAllow(p) ==
    /\ pc[p] = "allow"
    /\ heap' = [heap EXCEPT ![lim[p]] = AllowNext(heap[lim[p]], now)]
    /\ calls' = [calls EXCEPT ![arg[p]] =
                    Append(@, [at |-> now, ok |-> AllowOk(heap[lim[p]], now),
                               bucket |-> lim[p], via |-> via[p]])]
    /\ pc' = [pc EXCEPT ![p] = "idle"]
    /\ lim' = [lim EXCEPT ![p] = NoLimiter]
    /\ via' = [via EXCEPT ![p] = "none"]
    /\ arg' = [arg EXCEPT ![p] = "ip1"]
    /\ UNCHANGED <<proxyVars, auxVars>>
    /\ UNCHANGED <<rate, burst, limiters, mu, now, ncalls>>

\* The clock advances by one tick.
Tick ==
    /\ now < 1 + MaxTime
    /\ now' = now + 1
    /\ UNCHANGED <<proxyVars, auxVars>>
    /\ UNCHANGED <<rlVars, pc, arg, lim, via, calls, ncalls>>

Next ==
    \/ \E p \in Procs, ip \in IPs : Call(p, ip)
    \/ \E p \in Procs : GetLimiterRead(p)
    \/ \E p \in Procs : GetLimiterLock(p)
    \/ \E p \in Procs : GetLimiterCreate(p)
    \/ \E p \in Procs : LimiterAllow(p)
    \/ Tick

vars == <<rlVars, now, goVars, calls, proxyVars, auxVars>>

Spec == Init /\ [][Next]_vars

\* ------------------------------------------------- the request pipeline

\* getLimiter run without interruption: the registry and heap afterwards, and
\* the limiter returned.
GetLimiterSeq(ip, lims, hp) ==
    IF lims[LimiterKey(ip)] # NoLimiter
    THEN [limiters |-> lims, heap |-> hp, id |-> lims[LimiterKey(ip)]]
    ELSE [limiters |-> [lims EXCEPT ![LimiterKey(ip)] = Len(hp) + 1],
          heap |-> Append(hp, CreateLimiter),
          id |-> Len(hp) + 1]

\* Limiter.Tokens at time t, in sub-units.
Tokens(l, t) == Advance(l, t)

DigitChars == <<"0", "1", "2", "3", "4", "5", "6", "7", "8", "9">>

\* formatTokens(tokens): string(rune('0' + int(tokens)%10)).
FormatTokens(tokens) ==
    IF tokens < 0 THEN "0" ELSE DigitChars[((tokens \div Scale) % 10) + 1]

\* Mutant: the handler goes on after sendError.
SendError_NoReturn(q, message, code) ==
    [q EXCEPT !.status = code,
              !.hdr.contentType = "application/json",
              !.body = ErrorBody(message, code)]

\* sendError(w, message, code) on the response of a request.
SendError(q, message, code) ==
    [q EXCEPT !.pc = "done", !.status = code,
              !.hdr.contentType = "application/json",
              !.body = ErrorBody(message, code)]

\* The server as main starts it: a limiter with a positive rate and a burst
\* of one or more, an empty registry, and the store empty or left by an
\* earlier run.
InitProxy ==
    /\ \E r \in {MaxRate}, b \in {1, MaxBurst} :
          /\ rate = NewIPRateLimiter(r, b).rate
          /\ burst = NewIPRateLimiter(r, b).burst
          /\ limiters = NewIPRateLimiter(r, b).limiters
    /\ heap = <<>>
    /\ mu = 0
    /\ now = 1
    /\ pc = [p \in Procs |-> "idle"]
    /\ arg = [p \in Procs |-> "ip1"]
    /\ lim = [p \in Procs |-> NoLimiter]
    /\ via = [p \in Procs |-> "none"]
    /\ calls = [ip \in IPs |-> <<>>]
    /\ ncalls = 0
    /\ db \in {EmptyDB, PreloadedDB}
    /\ req = [r \in Reqs |-> IdleReq]
    /\ nreqs = 0
    /\ recent = [ip \in IPs |-> [at |-> 0, oks |-> <<>>]]
    /\ ft = IdleFetch
    /\ cx = IdleCache
    /\ cl = IdleLoop
    /\ env = DefaultEnv

\* No response is waiting to be sent off.
NoneDone == \A r \in Reqs : req[r].pc # "done"

\* The response written, the handler returns and its goroutine is free.  The
\* step touches nothing shared, so it is taken before any other.
Return(r) ==
    /\ req[r].pc = "done"
    /\ req' = [req EXCEPT ![r] = IdleReq]
    /\ UNCHANGED <<rlVars, now, goVars, calls, db, nreqs, recent, auxVars>>

\* Middleware, on a request that arrives from ip (extractIP's result) and is
\* taken by the first free server goroutine: Allow(ip); a denied request is
\* answered 429 and goes no further; an admitted one gets
\* X-RateLimit-Remaining and is handed to the wrapped handler.
Middleware(r, ip, method, url) ==
    /\ NoneDone
    /\ req[r].pc = "idle"
    /\ \A r2 \in Reqs : r2 < r => req[r2].pc # "idle"
    /\ nreqs < MaxReqs
    /\ nreqs' = nreqs + 1
    /\ LET q == [IdleReq EXCEPT !.ip = ip, !.method = method, !.url = url]
           g == GetLimiterSeq(q.ip, limiters, heap)
           ok == AllowOk(g.heap[g.id], now)
           hp == [g.heap EXCEPT ![g.id] = AllowNext(g.heap[g.id], now)]
           g2 == GetLimiterSeq(q.ip, g.limiters, hp)
           run == recent[q.ip]
           inRun == run.at = 0 \/ run.at = now
       IN  /\ recent' = IF inRun
                         THEN [recent EXCEPT ![q.ip] =
                                  [at |-> now, oks |-> Append(run.oks, ok)]]
                         ELSE recent
           /\ IF ~ok
              THEN /\ limiters' = g.limiters
                   /\ heap' = hp
                   /\ req' = [req EXCEPT ![r] =
                                 [q EXCEPT !.pc = "done", !.status = 429,
                                           !.hdr.contentType = "application/json",
                                           !.hdr.retryAfter = "1",
                                           !.body = ErrorBody("rate limit exceeded", 429),
                                           !.trace = <<"allow">>,
                                           !.hist.ok = ok]]
              ELSE /\ limiters' = g2.limiters
                   /\ heap' = g2.heap
                   /\ req' = [req EXCEPT ![r] =
                                 [q EXCEPT !.pc = "serve",
                                           !.hdr.remaining =
                                               FormatTokens(Tokens(g2.heap[g2.id], now)),
                                           !.trace = <<"allow">>,
                                           !.hist.ok = ok]]
    /\ UNCHANGED <<rate, burst, mu, now, goVars, calls, db, auxVars>>

\* Mutant: a lookup that fails is taken for a hit.
IsHit_OrErr(got) == got.err \/ got.found

\* ServeHTTP's test on cache.Get's result: err == nil && cached != nil.
IsHit(got) == ~got.err /\ got.found

\* ServeHTTP up to the cache lookup: CORS headers, preflight, url parameter,
\* validation, cache.Get; a hit is answered from the cache.
ServeLookup(r) ==
    /\ NoneDone
    /\ req[r].pc = "serve"
    /\ \E fault \in BOOLEAN :
          LET q == [req[r] EXCEPT !.hdr.cors = "*"]
              got == CacheGet(db, q.url, now, fault)
              item == db[GenerateCacheKey(q.url)]
              looked == [q EXCEPT !.trace = q.trace \o <<"param", "validate", "lookup">>,
                                  !.hist.live = (item # <<>> /\ now < item[1].expiresAt),
                                  !.hist.getErr = got.err]
          IN  req' = [req EXCEPT ![r] =
                 IF q.method = "OPTIONS"
                 THEN [q EXCEPT !.pc = "done", !.status = 204,
                                !.trace = q.trace \o <<"preflight">>]
                 ELSE IF q.url = ""
                 THEN SendError([q EXCEPT !.trace = q.trace \o <<"param">>],
                                "missing required 'url' parameter", 400)
                 ELSE IF ValidateURL(q.url) # ""
                 THEN SendError([q EXCEPT !.trace = q.trace \o <<"param", "validate">>],
                                ValidateURL(q.url), 400)
                 ELSE IF IsHit(got)
                 THEN [looked EXCEPT !.pc = "done", !.status = 200,
                                     !.hdr.contentType = got.contentType,
                                     !.hdr.xcache = "HIT",
                                     !.body = got.data,
                                     !.hist.from = IF item = <<>> THEN <<>>
                                                   ELSE <<item[1].origin>>]
                 ELSE [looked EXCEPT !.pc = "fetch"]]
    /\ UNCHANGED <<rlVars, now, goVars, calls, db, nreqs, recent, auxVars>>

\* ServeHTTP after a miss: Fetch, read the body, default the content type,
\* cache.Set (its error dropped), and answer.
ServeFetch(r) ==
    /\ NoneDone
    /\ req[r].pc = "fetch"
    /\ \E up \in Upstream, fault \in BOOLEAN :
          LET q == [req[r] EXCEPT !.trace = @ \o <<"fetch">>, !.hist.up = <<up>>]
              f == Fetch(q.url, up)
              contentType == IF f.resp.ct = "" THEN "application/octet-stream"
                             ELSE f.resp.ct
              origin == [by |-> "handler", status |-> f.resp.status,
                         body |-> f.resp.body, contentType |-> contentType]
          IN  IF f.err # ""
              THEN /\ ~fault
                   /\ req' = [req EXCEPT ![r] =
                                 SendError(q, "failed to fetch URL: " \o f.err, 502)]
                   /\ db' = db
              ELSE IF f.resp.readErr
              THEN /\ ~fault
                   /\ req' = [req EXCEPT ![r] =
                                 SendError(q, "failed to read response: unexpected EOF", 502)]
                   /\ db' = db
              ELSE /\ db' = CacheSet(db, q.url, f.resp.body, contentType, now,
                                     fault, origin)
                   /\ req' = [req EXCEPT ![r] =
                                 [q EXCEPT !.pc = "done", !.status = 200,
                                           !.hdr.contentType = contentType,
                                           !.hdr.xcache = "MISS",
                                           !.body = f.resp.body,
                                           !.trace = q.trace \o <<"store">>,
                                           !.hist.setErr = fault]]
    /\ UNCHANGED <<rlVars, now, goVars, calls, nreqs, recent, auxVars>>

\* badger reclaims the space of the entries that have expired.
Reclaim ==
    /\ NoneDone
    /\ \E k \in CacheKeys : db[k] # <<>> /\ Expired(db[k][1], now)
    /\ db' = [k \in CacheKeys |->
                 IF db[k] # <<>> /\ Expired(db[k][1], now) THEN <<>> ELSE db[k]]
    /\ UNCHANGED <<rlVars, now, goVars, calls, req, nreqs, recent, auxVars>>

\* Every goroutine is free or waiting for its upstream.  The middleware and
\* the cache lookup are local steps, short against a tick of the clock; the
\* upstream fetch is the step time passes in.
NoneLocal == \A r \in Reqs : req[r].pc \in {"idle", "fetch"}

NextProxy ==
    \/ \E r \in Reqs, ip \in Clients, rq \in Requests :
          Middleware(r, ip, rq.method, rq.url)
    \/ \E r \in Reqs : ServeLookup(r)
    \/ \E r \in Reqs : ServeFetch(r)
    \/ \E r \in Reqs : Return(r)
    \/ Reclaim
    \/ NoneLocal /\ Tick

SpecProxy == InitProxy /\ [][NextProxy]_vars

\* ------------------------------------------------- one handler, scheduled

\* The server taking one request at a time: the course of a request does not
\* depend on the other goroutines, which share nothing with it but the
\* limiter and the cache.
NextServe ==
    \/ \E ip \in Clients, rq \in Requests : Middleware(1, ip, rq.method, rq.url)
    \/ ServeLookup(1)
    \/ ServeFetch(1)
    \/ Return(1)
    \/ Reclaim
    \/ NoneLocal /\ Tick

\* The scheduler runs a goroutine that can take a step: a handler that can
\* go on does, and one that has written its response returns.
FairServe ==
    /\ WF_vars(ServeLookup(1))
    /\ WF_vars(ServeFetch(1))
    /\ WF_vars(Return(1))

SpecServe == InitProxy /\ [][NextServe]_vars /\ FairServe

\* ------------------------------------------- requests racing for one url

\* The url the racing requests ask for.
RaceURL == "https://example.com"

\* The server with burst enough to admit the requests, and nothing cached.
InitRace ==
    /\ rate = NewIPRateLimiter(MaxRate, MaxBurst).rate
    /\ burst = NewIPRateLimiter(MaxRate, MaxBurst).burst
    /\ limiters = NewIPRateLimiter(MaxRate, MaxBurst).limiters
    /\ heap = <<>>
    /\ mu = 0
    /\ now = 1
    /\ pc = [p \in Procs |-> "idle"]
    /\ arg = [p \in Procs |-> "ip1"]
    /\ lim = [p \in Procs |-> NoLimiter]
    /\ via = [p \in Procs |-> "none"]
    /\ calls = [ip \in IPs |-> <<>>]
    /\ ncalls = 0
    /\ db = EmptyDB
    /\ req = [r \in Reqs |-> IdleReq]
    /\ nreqs = 0
    /\ recent = [ip \in IPs |-> [at |-> 0, oks |-> <<>>]]
    /\ ft = IdleFetch
    /\ cx = IdleCache
    /\ cl = IdleLoop
    /\ env = DefaultEnv

\* The handler returns, as in Return; the request it finished is kept.
ReturnLogged(r) ==
    /\ req[r].pc = "done"
    /\ req' = [req EXCEPT ![r] = IdleReq]
    /\ cx' = [cx EXCEPT !.log = Append(@, req[r])]
    /\ UNCHANGED <<rlVars, now, goVars, calls, db, nreqs, recent, ft, cl, env>>

\* cache.Get(url) by another reader of the cache, at any moment.
RaceGet(u) ==
    /\ \E fault \in BOOLEAN :
          cx' = [cx EXCEPT !.last =
                    [op |-> "get", url |-> u, at |-> now,
                     res |-> <<CacheGet(db, u, now, fault)>>,
                     put |-> <<>>, fault |-> fault]]
    /\ UNCHANGED <<rlVars, now, goVars, calls, proxyVars, ft, cl, env>>

\* The racing requests all arrive before any of them returns, and the race
\* is over before the clock moves.
NextRace ==
    \/ \E r \in Reqs, ip \in Clients :
          cx.log = <<>> /\ Middleware(r, ip, "GET", RaceURL)
    \/ \E r \in Reqs : ServeLookup(r)
    \/ \E r \in Reqs : ServeFetch(r)
    \/ \E r \in Reqs : ReturnLogged(r)
    \/ RaceGet(RaceURL)

SpecRace == InitRace /\ [][NextRace]_vars

\* ------------------------------------------------- claims about the limiter

\* The first k calls of a history were made at one instant.
SameInstant(L, k) == \A i \in 1..k : L[i].at = L[1].at

\* The calls i..j of a history were all denied.
AllDenied(L, i, j) == \A n \in i..j : ~L[n].ok

\* Number of admitted calls in a history.
RECURSIVE Admitted(_)
Admitted(L) ==
    IF L = <<>> THEN 0
    ELSE Admitted(SubSeq(L, 1, Len(L) - 1)) + (IF L[Len(L)].ok THEN 1 ELSE 0)

\* C1: for every identity and burst size B >= 1, with no time elapsing
\* between the calls, the first B calls Allow(ip) of an identity that had no
\* bucket return true and call B+1 (and every later one) returns false.
C1_FreshBucketAdmitsBurst ==
    \A ip \in IPs : \A k \in 1..Len(calls[ip]) :
        SameInstant(calls[ip], k) => (calls[ip][k].ok <=> k <= burst)

\* C1 witness: an identity has made B+1 calls at one instant, B >= 2; the
\* last was denied.
C1_Witness ==
    \E ip \in IPs :
        /\ burst >= 2
        /\ Len(calls[ip]) = burst + 1
        /\ SameInstant(calls[ip], burst + 1)
        /\ ~calls[ip][burst + 1].ok

\* C2: under any interleaving of concurrent Allow calls for one identity with
\* no time elapsing, exactly min(N, B) of the N calls made so far returned
\* true; one bucket was created for the identity and every call was charged
\* against it, also when the calls raced to create it.
C2_ConcurrentAllowExact ==
    \A ip \in IPs :
        LET L == calls[ip]
        IN  /\ SameInstant(L, Len(L)) => Admitted(L) = Min(Len(L), burst)
            /\ \A i \in 1..Len(L) : L[i].bucket = L[1].bucket
            /\ Cardinality({i \in 1..Len(L) : L[i].via = "new"}) <= 1
            /\ Len(heap) <= Cardinality({j \in IPs : limiters[j] # NoLimiter})

\* C2 witness: two calls for an unseen identity raced: one created the
\* bucket and the other found it in the double-check; with a third call at
\* the same instant the bucket ran out.
C2_Witness ==
    \E ip \in IPs :
        LET L == calls[ip]
        IN  /\ Len(L) > burst
            /\ SameInstant(L, Len(L))
            /\ \E i, j \in 1..Len(L) : L[i].via = "new" /\ L[j].via = "recheck"

\* C9: for rate R > 0, after B admitted calls at time t0 have emptied the
\* bucket, a call is denied while less than one token has refilled and is
\* admitted once 1/R has elapsed: the first admitted call after the burst is
\* made when (t - t0) * R >= 1 and no call before that moment is admitted.
C9_RefillAfterBurst ==
    rate > 0 =>
        \A ip \in IPs :
            LET L == calls[ip]
            IN  \A j \in (burst + 1)..Len(L) :
                    (SameInstant(L, burst) /\ AllDenied(L, burst + 1, j - 1))
                        => (L[j].ok <=> (L[j].at - L[1].at) * rate >= Scale)

\* C9 witness: after the burst a call was denied before a token had
\* refilled, and a later call, made exactly 1/R after the burst, was admitted.
C9_Witness ==
    \E ip \in IPs :
        LET L == calls[ip]
        IN  /\ rate > 0
            /\ Len(L) = burst + 2
            /\ SameInstant(L, burst)
            /\ ~L[burst + 1].ok
            /\ L[burst + 2].ok
            /\ (L[burst + 2].at - L[1].at) * rate = Scale

\* The bucket of an identity, if it has one.
BucketOf(ip) == IF limiters[ip] = NoLimiter THEN <<>> ELSE <<heap[limiters[ip]]>>

\* The bucket a lone caller would have after making the first k calls of a
\* history, at the times they were made.
RECURSIVE Replay(_, _)
Replay(L, k) ==
    IF k = 0 THEN NewLimiter(rate, burst)
    ELSE AllowNext(Replay(L, k - 1), L[k].at)

\* Every result in the history of an identity is what its own calls alone,
\* made at the same times, would have got.
Independent ==
    \A ip \in IPs : \A k \in 1..Len(calls[ip]) :
        calls[ip][k].ok = AllowOk(Replay(calls[ip], k - 1), calls[ip][k].at)

\* A step changes the bucket of an identity only if it is a step of a call
\* Allow for that identity.
FrameStep ==
    \A ip \in IPs :
        BucketOf(ip)' # BucketOf(ip) =>
            \E p \in Procs : pc[p] # "idle" /\ arg[p] = ip /\ pc'[p] # pc[p]

\* C10: Allow(a) never changes the bucket of another identity b, and the
\* results of b's calls are those b would get if no call for a were made.
C10_Independence == [](Independent) /\ [][FrameStep]_vars

\* C10 witness: both identities have been called, one has run out of tokens
\* and the other was admitted afterwards.
C10_Witness ==
    /\ limiters["ip1"] # NoLimiter /\ limiters["ip2"] # NoLimiter
    /\ \E a, b \in IPs :
          /\ a # b
          /\ Len(calls[a]) > burst /\ ~calls[a][Len(calls[a])].ok
          /\ calls[b] # <<>> /\ calls[b][Len(calls[b])].ok
          /\ pc = [p \in Procs |-> "idle"]

\* ------------------------------------------------ claims about the pipeline

\* The response of goroutine r's request has been written.
Done(r) == req[r].pc = "done"

\* A step writes the response of goroutine r's request.
Finishes(r) == req[r].pc # "done" /\ req'[r].pc = "done"

\* The request went through the named step of the pipeline.
Did(q, step) == \E i \in DOMAIN q.trace : q.trace[i] = step

\* The response is a JSON error of the shape {"error": ..., "code": code}.
JsonError(q, code) ==
    /\ q.hdr.contentType = "application/json"
    /\ Len(q.body) = 2
    /\ q.body[1] = "json"
    /\ DOMAIN q.body[2] = {"error", "code"}
    /\ q.body[2].error # ""
    /\ q.body[2].code = code

\* The URL has scheme http or https and a host.
WellFormed(u) ==
    ParseURL(u).scheme \in {"http", "https"} /\ ParseURL(u).host # ""

\* The upstream's answer is a failed fetch: no response, a declared length
\* over the maximum, or a body that breaks off.
UpstreamFails(up) ==
    \/ up.kind # "resp"
    \/ up.declared /\ Len(up.body) > MaxSize
    \/ up.readErr

\* The request was served from the cache or from a successful fetch.
ServedOK(q) ==
    \/ q.hist.from # <<>>
    \/ q.hist.up # <<>> /\ ~UpstreamFails(q.hist.up[1])

\* The entry the store holds for a url, in a sequence (empty when it has none).
EntryOf(u) == db[GenerateCacheKey(u)]

\* A denied request: 429, Retry-After, a JSON error body, and nothing of the
\* wrapped handler.
C3_Rejected(q) ==
    /\ q.status = 429
    /\ q.hdr.retryAfter # ""
    /\ JsonError(q, 429)
    /\ q.trace = <<"allow">>
    /\ q.hist.up = <<>> /\ q.hist.from = <<>>
    /\ q.hdr.cors = "" /\ q.hdr.xcache = ""

\* Of the requests a client makes at the instant of its first one, the first
\* is admitted and the others are denied.
C3_FirstOnly(ip) ==
    \A i \in DOMAIN recent[ip].oks : recent[ip].oks[i] <=> i = 1

\* An admitted request is not answered 429, and is answered 200 when it is
\* served.
C3_Admitted(q) ==
    q.status # 429 /\ (ServedOK(q) => q.status = 200)

\* C3: a request denied by the admission limiter ends with status 429, a
\* Retry-After header and a JSON error body, and the wrapped handler is never
\* invoked for it: no validation, no cache lookup, no upstream fetch, and the
\* step that answers it leaves the cache as it was.  With burst = 1, two
\* immediate requests of one client give 200 then 429.
C3_DeniedIsRejected ==
    /\ [](\A r \in Reqs : (Done(r) /\ ~req[r].hist.ok) => C3_Rejected(req[r]))
    /\ [](\A r \in Reqs : (Done(r) /\ req[r].hist.ok) => C3_Admitted(req[r]))
    /\ [](burst = 1 => \A ip \in IPs : C3_FirstOnly(ip))
    /\ [][\A r \in Reqs : (Finishes(r) /\ ~req'[r].hist.ok) => db' = db]_vars

\* C3 witness: burst = 1; the client's first request was fetched and stored
\* at this very instant, and its second request is denied with 429.
C3_Witness ==
    \E r \in Reqs :
        /\ burst = 1
        /\ Done(r) /\ req[r].status = 429
        /\ recent[req[r].ip] = [at |-> now, oks |-> <<TRUE, FALSE>>]
        /\ EntryOf(req[r].url) # <<>>
        /\ EntryOf(req[r].url)[1].origin.by = "handler"
        /\ EntryOf(req[r].url)[1].expiresAt = now + TTL

\* An admitted request, not a preflight, whose url parameter is absent or
\* fails validation.
C4_BadURL(q) ==
    /\ q.hist.ok
    /\ q.method # "OPTIONS"
    /\ q.url = "" \/ ~WellFormed(q.url)

C5_Hit(q) ==
    /\ q.hist.ok
    /\ q.method = "GET"
    /\ WellFormed(q.url)
    /\ q.hist.live /\ ~q.hist.getErr

C6_Miss(q) ==
    /\ q.hist.ok /\ q.method = "GET" /\ WellFormed(q.url)
    /\ ~q.hist.live /\ ~q.hist.getErr
    /\ q.hist.up # <<>> /\ ~UpstreamFails(q.hist.up[1])
    /\ ~q.hist.setErr

\* An admitted GET with a valid URL, made after a request of this run stored
\* that URL's entry and before the entry's time-to-live has elapsed.
C6_After(q) ==
    /\ C5_Hit(q)
    /\ q.hist.from # <<>>
    /\ q.hist.from[1].by = "handler"

\* What C6 says of the two requests, the Content-Type aside.
C6_ExceptContentType ==
    \A r \in Reqs : Done(r) =>
        /\ C6_Miss(req[r]) =>
              /\ req[r].status = 200
              /\ req[r].body = req[r].hist.up[1].body
              /\ req[r].hdr.xcache = "MISS"
        /\ C6_After(req[r]) =>
              /\ req[r].status = 200
              /\ req[r].hdr.xcache = "HIT"
              /\ req[r].body = req[r].hist.from[1].body
              /\ ~Did(req[r], "fetch")

\* C6: for an admitted request with a valid URL that has no live entry, whose
\* fetch and store both succeed, the response is 200 with the upstream body
\* and X-Cache: MISS; and an identical request made afterwards, before the
\* TTL elapses, gets 200 with X-Cache: HIT, the same body and the same
\* Content-Type as that response, without a second upstream fetch.
C6_MissThenHit ==
    /\ C6_ExceptContentType
    /\ \A r \in Reqs : (Done(r) /\ C6_After(req[r])) =>
          req[r].hdr.contentType = req[r].hist.from[1].contentType

\* An admitted request whose upstream fetch failed.
C7_FetchFailed(q) ==
    /\ q.hist.ok
    /\ q.hist.up # <<>>
    /\ UpstreamFails(q.hist.up[1])

\* C7: when the upstream fetch of a cache-miss request fails (network error,
\* timeout, too many redirects, oversized declared length, or an error while
\* reading the body), the request ends with status 502 and a JSON error body,
\* and the step that answers it leaves the cache exactly as it was.
C7_FetchFailureIs502 ==
    /\ [](\A r \in Reqs : (Done(r) /\ C7_FetchFailed(req[r])) =>
            /\ req[r].status = 502
            /\ JsonError(req[r], 502)
            /\ req[r].hdr.xcache = ""
            /\ ~Did(req[r], "store"))
    /\ [][\A r \in Reqs : (Finishes(r) /\ C7_FetchFailed(req'[r])) => db' = db]_vars

\* C7 witness: the body of an upstream response broke off; the request is
\* answered 502 and the entry the cache held under its URL, no longer live,
\* is still there.
C7_Witness ==
    \E r \in Reqs :
        /\ Done(r) /\ req[r].status = 502
        /\ req[r].hist.up # <<>>
        /\ req[r].hist.up[1].kind = "resp" /\ req[r].hist.up[1].readErr
        /\ EntryOf(req[r].url) # <<>>
        /\ EntryOf(req[r].url)[1].expiresAt <= now

\* C8: a cache error is never surfaced to the client: after a lookup that
\* returned an error the request goes on to the upstream fetch as on a miss
\* (and is answered as a miss is: 200 with the fresh body and X-Cache: MISS,
\* or 502 when the fetch fails), and after a store that returned an error the
\* request still ends with 200, the fresh body and X-Cache: MISS.
C8_CacheErrorNotSurfaced ==
    \A r \in Reqs :
        /\ req[r].hist.getErr => req[r].pc \in {"fetch", "done"}
        /\ (Done(r) /\ (req[r].hist.getErr \/ req[r].hist.setErr)) =>
              /\ Did(req[r], "fetch")
              /\ req[r].hist.up # <<>> /\ req[r].hist.from = <<>>
              /\ IF UpstreamFails(req[r].hist.up[1])
                 THEN req[r].status = 502 /\ ~req[r].hist.setErr
                 ELSE /\ req[r].status = 200
                      /\ req[r].body = req[r].hist.up[1].body
                      /\ req[r].hdr.xcache = "MISS"

\* C8 witness: the cache held a live entry, the lookup and the store both
\* returned an error, and the request is answered 200 with the fresh body.
C8_Witness ==
    \E r \in Reqs :
        /\ Done(r)
        /\ req[r].hist.live /\ req[r].hist.getErr /\ req[r].hist.setErr
        /\ req[r].status = 200 /\ req[r].hdr.xcache = "MISS"
        /\ req[r].body = req[r].hist.up[1].body

\* The entry under the url, if any, has outlived its time-to-live.
C13_Stale(u) == EntryOf(u) # <<>> /\ now >= EntryOf(u)[1].written + TTL

C14_OnlySuccessCached ==
    /\ \A u \in URLStrings :
          (EntryOf(u) # <<>> /\ EntryOf(u)[1].origin.by = "handler") =>
              EntryOf(u)[1].origin.status < 400
    /\ \A r \in Reqs :
          (Done(r) /\ req[r].hdr.xcache = "HIT") =>
              req[r].hist.from[1].status < 400

\* ------------------------------------------------ one fetch, step by step

\* How far the upstream redirects before it answers: not at all, nine times,
\* ten times, or for ever (a redirect cycle).
Chains ==
    {[redirects |-> n, loop |-> FALSE] : n \in {0, MaxRedirects - 1, MaxRedirects}}
    \cup {[redirects |-> 0, loop |-> TRUE]}

\* The responses at the end of a redirect chain: those of Upstream, and one
\* whose declared length is exactly the maximum.
FinalResponses ==
    {u \in Upstream : u.kind = "resp"}
    \cup {Resp(200, TRUE, FullBody, JsonCT, FALSE)}

\* What the upstream does with one fetch.
FetchScenarios ==
    {[redirects |-> c.redirects, loop |-> c.loop, resp |-> r] :
        c \in Chains, r \in FinalResponses}

\* The instant the http.Client's timer cancels the fetch followed in ft: the
\* Timeout covers the redirects and the reading of the body.
Deadline == ft.t0 + FetchTimeout

\* Mutant: the timer never fires.
TimedOut_Never == FALSE

TimedOut == now >= Deadline

\* The handler answers through sendError after a failed Fetch or read.
FetchFail(message) ==
    [ft EXCEPT !.pc = "done", !.err = message, !.status = 502, !.closed = ft.net]

InitFetch ==
    /\ rate = NewIPRateLimiter(MaxRate, MaxBurst).rate
    /\ burst = NewIPRateLimiter(MaxRate, MaxBurst).burst
    /\ limiters = NewIPRateLimiter(MaxRate, MaxBurst).limiters
    /\ heap = <<>>
    /\ mu = 0
    /\ now = 1
    /\ pc = [p \in Procs |-> "idle"]
    /\ arg = [p \in Procs |-> "ip1"]
    /\ lim = [p \in Procs |-> NoLimiter]
    /\ via = [p \in Procs |-> "none"]
    /\ calls = [ip \in IPs |-> <<>>]
    /\ ncalls = 0
    /\ db \in {EmptyDB, PreloadedDB}
    /\ req = [r \in Reqs |-> IdleReq]
    /\ nreqs = 0
    /\ recent = [ip \in IPs |-> [at |-> 0, oks |-> <<>>]]
    /\ ft = IdleFetch
    /\ cx = IdleCache
    /\ cl = IdleLoop
    /\ env = DefaultEnv

\* Fetch(rawURL) is called: ValidateURL, then NewRequest and client.Do start.
FetchCall(u, sc) ==
    /\ ft.pc = "idle"
    /\ ft' = IF ValidateURL(u) # ""
             THEN [IdleFetch EXCEPT !.pc = "done", !.url = u,
                                    !.err = "failed to fetch URL: " \o ValidateURL(u),
                                    !.status = 502]
             ELSE [IdleFetch EXCEPT !.pc = "do", !.url = u, !.up = <<sc>>,
                                    !.t0 = now, !.net = TRUE]
    /\ UNCHANGED <<rlVars, now, goVars, calls, proxyVars, cx, cl, env>>

\* client.Do: the upstream answers with a redirect; CheckRedirect is asked
\* with the requests made so far, and the redirect is followed or Do fails.
DoRedirect ==
    /\ ft.pc = "do"
    /\ ~TimedOut
    /\ ft.up[1].loop \/ ft.hops < ft.up[1].redirects
    /\ ft' = IF CheckRedirect(ft.hops + 1) # ""
             THEN FetchFail("failed to fetch URL: failed to fetch URL: "
                            \o CheckRedirect(ft.hops + 1))
             ELSE [ft EXCEPT !.hops = ft.hops + 1]
    /\ UNCHANGED <<rlVars, now, goVars, calls, proxyVars, cx, cl, env>>

\* client.Do returns the final response and Fetch tests its declared length:
\* too big, the body is closed unread and Fetch fails; else Fetch returns it.
DoResponse ==
    /\ ft.pc = "do"
    /\ ~TimedOut
    /\ ~ft.up[1].loop /\ ft.hops = ft.up[1].redirects
    /\ ft' = IF TooBig(ContentLength(ft.up[1].resp))
             THEN FetchFail("failed to fetch URL: response exceeds maximum allowed size")
             ELSE [ft EXCEPT !.pc = "read"]
    /\ UNCHANGED <<rlVars, now, goVars, calls, proxyVars, cx, cl, env>>

\* The timer fires while client.Do awaits a response.
DoTimeout ==
    /\ ft.pc = "do"
    /\ TimedOut
    /\ ft' = FetchFail("failed to fetch URL: failed to fetch URL: timeout")
    /\ UNCHANGED <<rlVars, now, goVars, calls, proxyVars, cx, cl, env>>

\* io.ReadAll reads one more byte of the body.
ReadChunk ==
    /\ ft.pc = "read"
    /\ ~TimedOut
    /\ ft.read < Len(ft.up[1].resp.body)
    /\ ft' = [ft EXCEPT !.read = ft.read + 1]
    /\ UNCHANGED <<rlVars, now, goVars, calls, proxyVars, cx, cl, env>>

\* The body breaks off: io.ReadAll returns what it read and an error.
ReadBroken ==
    /\ ft.pc = "read"
    /\ ft.up[1].resp.readErr
    /\ ft' = FetchFail("failed to read response: unexpected EOF")
    /\ UNCHANGED <<rlVars, now, goVars, calls, proxyVars, cx, cl, env>>

\* The timer fires while the body is read: io.ReadAll returns what it read
\* and an error.
ReadTimeout ==
    /\ ft.pc = "read"
    /\ TimedOut
    /\ ft' = FetchFail("failed to read response: timeout")
    /\ UNCHANGED <<rlVars, now, goVars, calls, proxyVars, cx, cl, env>>

\* io.ReadAll reaches the end of the body; the handler defaults the content
\* type, calls cache.Set (its error dropped) and answers 200.
ReadDone ==
    /\ ft.pc = "read"
    /\ ~TimedOut
    /\ ~ft.up[1].resp.readErr
    /\ ft.read = Len(ft.up[1].resp.body)
    /\ \E fault \in BOOLEAN :
          LET resp == ft.up[1].resp
              body == SubSeq(resp.body, 1, ft.read)
              contentType == IF resp.ct = "" THEN "application/octet-stream"
                             ELSE resp.ct
              origin == [by |-> "handler", status |-> resp.status,
                         body |-> body, contentType |-> contentType]
          IN  /\ db' = CacheSet(db, ft.url, body, contentType, now, fault, origin)
              /\ ft' = [ft EXCEPT !.pc = "done", !.status = 200, !.closed = TRUE,
                                  !.stored = TRUE]
    /\ UNCHANGED <<rlVars, now, goVars, calls, req, nreqs, recent, cx, cl, env>>

\* The client goes away (or the server's deadline for the request elapses)
\* while the fetch is in flight: r.Context() is cancelled.  Fetch builds its
\* request with http.NewRequest, without that context, and ServeHTTP does not
\* look at it, so nothing else changes.
Cancel ==
    /\ ft.pc \in {"do", "read"}
    /\ ~ft.cancelled
    /\ ft' = [ft EXCEPT !.cancelled = TRUE]
    /\ UNCHANGED <<rlVars, now, goVars, calls, proxyVars, cx, cl, env>>

NextFetch ==
    \/ \E u \in URLSamples, sc \in FetchScenarios : FetchCall(u, sc)
    \/ DoRedirect
    \/ DoResponse
    \/ DoTimeout
    \/ ReadChunk
    \/ ReadBroken
    \/ ReadTimeout
    \/ ReadDone
    \/ Cancel
    \/ Tick

SpecFetch == InitFetch /\ [][NextFetch]_vars

\* ------------------------------------------- the cache, called on its own

\* The calls one behavior makes on the cache.
MaxOps == 3

\* The arguments of the calls: two urls, an empty and a one-byte body, a
\* content type that is valid UTF-8 and one that is not.
CacheURLs == {"https://example.com", "http://example.com"}

CacheBodies == {<<>>, SmallBody}

CacheTypes == {JsonCT, RawCT}

\* NewBadgerCache on an empty directory, as cache_test.go opens it.
InitCache ==
    /\ rate = MaxRate
    /\ burst = MaxBurst
    /\ limiters = NewIPRateLimiter(MaxRate, MaxBurst).limiters
    /\ heap = <<>>
    /\ mu = 0
    /\ now = 1
    /\ pc = [p \in Procs |-> "idle"]
    /\ arg = [p \in Procs |-> "ip1"]
    /\ lim = [p \in Procs |-> NoLimiter]
    /\ via = [p \in Procs |-> "none"]
    /\ calls = [ip \in IPs |-> <<>>]
    /\ ncalls = 0
    /\ db = EmptyDB
    /\ req = [r \in Reqs |-> IdleReq]
    /\ nreqs = 0
    /\ recent = [ip \in IPs |-> [at |-> 0, oks |-> <<>>]]
    /\ ft = IdleFetch
    /\ cx = IdleCache
    /\ cl = IdleLoop
    /\ env = DefaultEnv

\* The record of one more call on the cache.
CacheCalled(call, stores) ==
    [cx EXCEPT !.last = call, !.prev = cx.last,
               !.stored = cx.stored \cup stores, !.n = cx.n + 1]

\* cache.Set(url, data, contentType).
CSet(u, data, contentType) ==
    /\ cx.n < MaxOps
    /\ \E fault \in BOOLEAN :
          /\ db' = CacheSet(db, u, data, contentType, now, fault,
                            [by |-> "caller", status |-> 0, body |-> data,
                             contentType |-> contentType])
          /\ cx' = CacheCalled([op |-> "set", url |-> u, at |-> now, res |-> <<>>,
                                put |-> <<[data |-> data,
                                           contentType |-> contentType]>>,
                                fault |-> fault],
                               IF fault THEN {} ELSE {u})
    /\ UNCHANGED <<rlVars, now, goVars, calls, req, nreqs, recent, ft, cl, env>>

\* cache.Get(url).
CGet(u) ==
    /\ cx.n < MaxOps
    /\ \E fault \in BOOLEAN :
          cx' = CacheCalled([op |-> "get", url |-> u, at |-> now,
                             res |-> <<CacheGet(db, u, now, fault)>>,
                             put |-> <<>>, fault |-> fault], {})
    /\ UNCHANGED <<rlVars, now, goVars, calls, proxyVars, ft, cl, env>>

\* cache.Delete(url); the update may fail and delete nothing.
CDelete(u) ==
    /\ cx.n < MaxOps
    /\ \E fault \in BOOLEAN :
          /\ db' = IF fault THEN db ELSE CacheDelete(db, u)
          /\ cx' = CacheCalled([op |-> "delete", url |-> u, at |-> now,
                                res |-> <<>>, put |-> <<>>, fault |-> fault], {})
    /\ UNCHANGED <<rlVars, now, goVars, calls, req, nreqs, recent, ft, cl, env>>

NextCache ==
    \/ \E u \in CacheURLs, data \in CacheBodies, contentType \in CacheTypes :
          CSet(u, data, contentType)
    \/ \E u \in CacheURLs : CGet(u)
    \/ \E u \in CacheURLs : CDelete(u)
    \/ Reclaim
    \/ Tick

SpecCache == InitCache /\ [][NextCache]_vars

\* ------------------------------------------------- a server with a big burst

\* A burst that leaves ten tokens or more after a request.
BigBurst == 12

\* The server started with RATE_BURST of ten or more (main's default is of
\* that size), the store empty or left by an earlier run.
InitHeader ==
    /\ rate = NewIPRateLimiter(MaxRate, BigBurst).rate
    /\ burst = NewIPRateLimiter(MaxRate, BigBurst).burst
    /\ limiters = NewIPRateLimiter(MaxRate, BigBurst).limiters
    /\ heap = <<>>
    /\ mu = 0
    /\ now = 1
    /\ pc = [p \in Procs |-> "idle"]
    /\ arg = [p \in Procs |-> "ip1"]
    /\ lim = [p \in Procs |-> NoLimiter]
    /\ via = [p \in Procs |-> "none"]
    /\ calls = [ip \in IPs |-> <<>>]
    /\ ncalls = 0
    /\ db \in {EmptyDB, PreloadedDB}
    /\ req = [r \in Reqs |-> IdleReq]
    /\ nreqs = 0
    /\ recent = [ip \in IPs |-> [at |-> 0, oks |-> <<>>]]
    /\ ft = IdleFetch
    /\ cx = IdleCache
    /\ cl = IdleLoop
    /\ env = DefaultEnv

SpecHeader == InitHeader /\ [][NextProxy]_vars

\* ------------------------------------------------- the limiter's cleanup loop

\* The size of the registry above which a tick of the loop clears it
\* (10000 in cleanupLoop).
ClearAbove == 1

\* The cleanup goroutine, as a holder of rl.mu.
CleanupProc == NProcs + 1

\* Mutant: the registry is counted one short.
LenLimiters_LessOne == Cardinality({ip \in IPs : limiters[ip] # NoLimiter}) - 1

\* The limiters the registry holds: len(rl.limiters).
LenLimiters == Cardinality({ip \in IPs : limiters[ip] # NoLimiter})

\* Mutant: a closed channel is never ready to be received from.
DoneReady_Never == FALSE

\* case <-rl.done: a receive from a closed channel is always ready.
DoneReady == cl.done

\* NewIPRateLimiter: the registry empty, the cleanup goroutine started and
\* waiting in its select.
InitCleanup ==
    /\ \E b \in {1, MaxBurst} :
          /\ rate = NewIPRateLimiter(MaxRate, b).rate
          /\ burst = NewIPRateLimiter(MaxRate, b).burst
          /\ limiters = NewIPRateLimiter(MaxRate, b).limiters
    /\ heap = <<>>
    /\ mu = 0
    /\ now = 1
    /\ pc = [p \in Procs |-> "idle"]
    /\ arg = [p \in Procs |-> "ip1"]
    /\ lim = [p \in Procs |-> NoLimiter]
    /\ via = [p \in Procs |-> "none"]
    /\ calls = [ip \in IPs |-> <<>>]
    /\ ncalls = 0
    /\ db = EmptyDB
    /\ req = [r \in Reqs |-> IdleReq]
    /\ nreqs = 0
    /\ recent = [ip \in IPs |-> [at |-> 0, oks |-> <<>>]]
    /\ ft = IdleFetch
    /\ cx = IdleCache
    /\ cl = IdleLoop
    /\ env = DefaultEnv

\* The ticker fires: a tick is put in ticker.C, which holds one (a tick that
\* finds it full is dropped).  The loop stops the ticker when it returns.
TickerFires ==
    /\ cl.pc # "exited"
    /\ ~cl.tick
    /\ cl' = [cl EXCEPT !.tick = TRUE]
    /\ UNCHANGED <<rlVars, now, goVars, calls, proxyVars, ft, cx, env>>

\* select, case <-ticker.C.
LoopTick ==
    /\ cl.pc = "select"
    /\ cl.tick
    /\ cl' = [cl EXCEPT !.tick = FALSE, !.pc = "lock"]
    /\ UNCHANGED <<rlVars, now, goVars, calls, proxyVars, ft, cx, env>>

\* rl.mu.Lock() in the loop.
LoopLock ==
    /\ cl.pc = "lock"
    /\ mu = 0
    /\ mu' = CleanupProc
    /\ cl' = [cl EXCEPT !.pc = "locked"]
    /\ UNCHANGED <<rate, burst, limiters, heap, now, goVars, calls, proxyVars,
                   ft, cx, env>>

\* Under the lock: the registry is replaced by an empty one if it has grown
\* too large; rl.mu.Unlock().
LoopSweep ==
    /\ cl.pc = "locked"
    /\ mu = CleanupProc
    /\ limiters' = IF LenLimiters > ClearAbove
                   THEN [ip \in IPs |-> NoLimiter]
                   ELSE limiters
    /\ mu' = 0
    /\ cl' = [cl EXCEPT !.pc = "select"]
    /\ UNCHANGED <<rate, burst, heap, now, goVars, calls, proxyVars, ft, cx, env>>

\* select, case <-rl.done: return.
LoopExit ==
    /\ cl.pc = "select"
    /\ DoneReady
    /\ cl' = [cl EXCEPT !.pc = "exited"]
    /\ UNCHANGED <<rlVars, now, goVars, calls, proxyVars, ft, cx, env>>

\* Cleanup(): close(rl.done).  main calls it once, deferred.
Cleanup ==
    /\ ~cl.done
    /\ cl' = [cl EXCEPT !.done = TRUE, !.at = cl.pc]
    /\ UNCHANGED <<rlVars, now, goVars, calls, proxyVars, ft, cx, env>>

\* The loop runs beside one goroutine that calls Allow.
NextCleanup ==
    \/ \E ip \in IPs : Call(1, ip)
    \/ \E p \in Procs : GetLimiterRead(p)
    \/ \E p \in Procs : GetLimiterLock(p)
    \/ \E p \in Procs : GetLimiterCreate(p)
    \/ \E p \in Procs : LimiterAllow(p)
    \/ Tick
    \/ TickerFires
    \/ LoopTick
    \/ LoopLock
    \/ LoopSweep
    \/ LoopExit
    \/ Cleanup

\* The scheduler runs every goroutine that can take a step; a goroutine that
\* holds rl.mu gives it back; a goroutine waiting in Lock gets the mutex
\* when it is free again and again (sync.Mutex hands a starving waiter the
\* lock); select picks among its ready cases at random, so a case that is
\* ready again and again is taken.
FairCleanup ==
    /\ \A p \in Procs : WF_vars(GetLimiterCreate(p))
    /\ SF_vars(LoopLock)
    /\ WF_vars(LoopSweep)
    /\ SF_vars(LoopExit)

SpecCleanup == InitCleanup /\ [][NextCleanup]_vars /\ FairCleanup

\* ------------------------------------------------- main's configuration

\* main's default for RATE_LIMIT (100 requests per second), in the model the
\* fastest rate.
DefaultRate == MaxRate

\* The settings of RATE_LIMIT: not set, or a positive number of sub-units
\* per tick.
RateSettings == {"", "1", "2"}

\* getEnvFloat(key, defaultValue), given the variable's value and whether
\* os.Stdin.Read(nil) succeeds: when the variable is set and the read
\* succeeds it returns f, which nothing has assigned; the value is never
\* parsed.
GetEnvFloat(value, defaultValue, stdinOk) ==
    IF value # "" /\ stdinOk THEN 0 ELSE defaultValue

\* main up to NewIPRateLimiter(rateLimit, rateBurst), in each environment.
InitConfig ==
    /\ \E value \in RateSettings, ok \in BOOLEAN, b \in {1, MaxBurst} :
          /\ env = [RATE_LIMIT |-> value, stdin |-> ok]
          /\ rate = NewIPRateLimiter(GetEnvFloat(value, DefaultRate, ok), b).rate
          /\ burst = NewIPRateLimiter(GetEnvFloat(value, DefaultRate, ok), b).burst
          /\ limiters =
                NewIPRateLimiter(GetEnvFloat(value, DefaultRate, ok), b).limiters
    /\ heap = <<>>
    /\ mu = 0
    /\ now = 1
    /\ pc = [p \in Procs |-> "idle"]
    /\ arg = [p \in Procs |-> "ip1"]
    /\ lim = [p \in Procs |-> NoLimiter]
    /\ via = [p \in Procs |-> "none"]
    /\ calls = [ip \in IPs |-> <<>>]
    /\ ncalls = 0
    /\ db = EmptyDB
    /\ req = [r \in Reqs |-> IdleReq]
    /\ nreqs = 0
    /\ recent = [ip \in IPs |-> [at |-> 0, oks |-> <<>>]]
    /\ ft = IdleFetch
    /\ cx = IdleCache
    /\ cl = IdleLoop

SpecConfig == InitConfig /\ [][Next]_vars

\* ---------------------------------------------------- claims about Fetch

\* The kind of a ValidateURL result (errors.Is).
ErrKind(e) ==
    CASE e = "" -> "ok"
      [] e = "URL scheme must be http or https" -> "InvalidScheme"
      [] e \in {"invalid URL", "invalid URL: parse error"} -> "InvalidURL"
      [] OTHER -> "other"

\* What C11 says ValidateURL gives, by the rules in their order.
C11_Expected(u) ==
    IF u = "" \/ ParseURL(u).err THEN "InvalidURL"
    ELSE IF ParseURL(u).scheme \notin {"http", "https"} THEN "InvalidScheme"
    ELSE IF ParseURL(u).host = "" THEN "InvalidURL"
    ELSE "ok"

\* C11: ValidateURL returns ok exactly when the URL is non-empty, parses, has
\* scheme http or https and a non-empty host; checked in that order, an empty
\* or unparsable URL gives InvalidURL, another scheme or none InvalidScheme,
\* an empty host InvalidURL.  Fetch applies the same validation before any
\* network access: a URL that fails it makes Fetch fail with that error
\* without a call of client.Do, and one that passes it goes to the network.
C11_ValidateURL ==
    /\ \A u \in URLSamples : ErrKind(ValidateURL(u)) = C11_Expected(u)
    /\ ft.pc # "idle" =>
          IF C11_Expected(ft.url) = "ok"
          THEN ft.net
          ELSE /\ ~ft.net /\ ft.pc = "done" /\ ft.up = <<>>
               /\ \E e \in {"URL scheme must be http or https", "invalid URL",
                            "invalid URL: parse error"} :
                     /\ ErrKind(e) = C11_Expected(ft.url)
                     /\ ft.err = "failed to fetch URL: " \o e

\* C11 witness: Fetch of a relative path has failed with InvalidScheme and
\* without network access.
C11_Witness ==
    /\ ft.pc = "done" /\ ft.url = "/path/to/resource"
    /\ ~ft.net
    /\ ft.err = "failed to fetch URL: URL scheme must be http or https"

\* The timer of the fetch followed in ft has fired.
C15_Late == now >= ft.t0 + FetchTimeout

\* The fetch followed in ft moves on in this step.
C15_Moves ==
    ft.pc \in {"do", "read"} /\
    (ft'.pc # ft.pc \/ ft'.hops # ft.hops \/ ft'.read # ft.read)

\* C15: if the upstream has not delivered its response within the fetch
\* timeout, the fetch ends in an error and never in a success carrying
\* partial data: from the timeout on, the only way a fetch moves on is to
\* fail; the handler then answers 502 and leaves the cache as it was.  A
\* fetch that ends in success ended before the timeout, with the whole body.
C15_TimeoutIsError ==
    /\ [][(C15_Moves /\ C15_Late) =>
            /\ ft'.pc = "done" /\ ft'.status = 502 /\ ft'.err # ""
            /\ ~ft'.stored
            /\ db' = db]_vars
    /\ [][(C15_Moves /\ ft'.status = 200) =>
            /\ ~C15_Late
            /\ ft'.read = Len(ft.up[1].resp.body)]_vars

\* C15 witness: the timer fired when part of the body had been read; the
\* request is answered 502 and the cache is still empty.
C15_Witness ==
    /\ ft.pc = "done" /\ ft.status = 502
    /\ ft.err = "failed to read response: timeout"
    /\ ft.read > 0 /\ ft.read < Len(ft.up[1].resp.body)
    /\ db = EmptyDB

\* Fetch got the final response of the fetch followed in ft and returned it.
C16_Returned ==
    \/ ft.pc = "read"
    \/ ft.pc = "done" /\ ft.status = 200
    \/ ft.pc = "done" /\ ft.err \in {"failed to read response: timeout",
                                     "failed to read response: unexpected EOF"}

\* C16: Fetch returns the ResponseTooLarge error, without reading the body
\* and after closing it, exactly when the upstream declares a Content-Length
\* strictly greater than the maximum; a declared length equal to or below the
\* maximum, or an absent Content-Length, is not rejected by Fetch.
C16_TooLarge ==
    /\ ft.err = "failed to fetch URL: response exceeds maximum allowed size" =>
          /\ ft.up[1].resp.declared
          /\ Len(ft.up[1].resp.body) > MaxSize
          /\ ft.read = 0 /\ ft.closed
    /\ C16_Returned =>
          ~(ft.up[1].resp.declared /\ Len(ft.up[1].resp.body) > MaxSize)

\* C16 witness: a response declaring exactly the maximum length was returned
\* by Fetch and read to its end.
C16_Witness ==
    /\ ft.pc = "done" /\ ft.status = 200
    /\ ft.up[1].resp.declared
    /\ Len(ft.up[1].resp.body) = MaxSize
    /\ ft.read = MaxSize

\* C17: Fetch follows a redirect chain of up to 10 redirects to its final
\* response, and fails with "too many redirects" as soon as the chain exceeds
\* 10 redirects; a redirect cycle never makes Fetch loop forever.
C17_TenRedirects ==
    ft.pc # "idle" /\ ft.net =>
        /\ ft.hops <= 10
        /\ (~ft.up[1].loop /\ ft.up[1].redirects <= 10) =>
              ft.err # "failed to fetch URL: failed to fetch URL: too many redirects"
        /\ (ft.up[1].loop /\ ft.pc = "done") =>
              ft.err \in {"failed to fetch URL: failed to fetch URL: too many redirects",
                          "failed to fetch URL: failed to fetch URL: timeout"}

\* What holds of the code: nine redirects are followed, the tenth is refused.
C17_NineRedirects ==
    ft.pc # "idle" /\ ft.net =>
        /\ ft.hops <= 9
        /\ (~ft.up[1].loop /\ ft.up[1].redirects <= 9) =>
              ft.err # "failed to fetch URL: failed to fetch URL: too many redirects"
        /\ ((ft.up[1].loop \/ ft.up[1].redirects >= 10) /\ ft.pc = "done") =>
              ft.err \in {"failed to fetch URL: failed to fetch URL: too many redirects",
                          "failed to fetch URL: failed to fetch URL: timeout"}

\* C18: when the request is cancelled while the upstream fetch is in flight,
\* the fetch is abandoned and its result discarded: no cache write results
\* from that request.
C18_CancelledWritesNothing == [][ft.cancelled => db' = db]_vars

\* -------------------------------------------------- claims about the cache

\* The last call was a Get that the store answered, straight after a call of
\* the named kind on the same url that the store carried out.
C12_GetAfter(op) ==
    /\ cx.last.op = "get" /\ ~cx.last.fault
    /\ cx.prev.op = op /\ ~cx.prev.fault
    /\ cx.prev.url = cx.last.url
    /\ cx.prev.at = cx.last.at

C12_Miss == [found |-> FALSE, err |-> FALSE, data |-> <<>>, contentType |-> ""]

\* C12: the cache round trip, for every url, body and content type: Set
\* followed immediately by Get of the url returns the body and the content
\* type with found = true; Delete followed by Get returns found = false and
\* no error; Get of a url never stored returns found = false and no error.
C12_RoundTrip ==
    /\ C12_GetAfter("set") =>
          cx.last.res[1] = [found |-> TRUE, err |-> FALSE,
                            data |-> cx.prev.put[1].data,
                            contentType |-> cx.prev.put[1].contentType]
    /\ C12_GetAfter("delete") => cx.last.res[1] = C12_Miss
    /\ (cx.last.op = "get" /\ ~cx.last.fault /\ cx.last.url \notin cx.stored) =>
          cx.last.res[1] = C12_Miss

\* The round trip for the content types that are valid UTF-8.
C12_RoundTripUTF8 ==
    (cx.prev.op = "set" => cx.prev.put[1].contentType # RawCT) => C12_RoundTrip

\* A Set of a body under a content type that is not valid UTF-8, then Get.
C12_Witness ==
    /\ C12_GetAfter("set")
    /\ cx.prev.put[1] = [data |-> SmallBody, contentType |-> RawCT]

\* ------------------------------------------- claims about the rate header

RECURSIVE Decimal(_)
\* A natural number in decimal.
Decimal(n) ==
    IF n < 10 THEN DigitChars[n + 1]
    ELSE Decimal(n \div 10) \o DigitChars[(n % 10) + 1]

\* The whole tokens the bucket of a client holds after the step, 0 when the
\* count is negative.
C19_Left(ip) ==
    LET tokens == Advance(heap'[limiters'[LimiterKey(ip)]], now)
    IN  IF tokens < 0 THEN 0 ELSE tokens \div Scale

\* C19: on every admitted request X-RateLimit-Remaining is the decimal
\* integer part of the tokens left in the client's bucket after the request's
\* token was taken (0 if negative), for every burst, counts of 10 and more
\* included.
C19_RemainingIsDecimal ==
    [][\A r \in Reqs :
          (req[r].pc = "idle" /\ req'[r].pc = "serve") =>
              req'[r].hdr.remaining = Decimal(C19_Left(req'[r].ip))]_vars

\* The header gives the last decimal digit of the count.
C19_RemainingIsLastDigit ==
    [][\A r \in Reqs :
          (req[r].pc = "idle" /\ req'[r].pc = "serve") =>
              req'[r].hdr.remaining = Decimal(C19_Left(req'[r].ip) % 10)]_vars

\* ------------------------------------------- claims about the cleanup loop

\* C20: after Cleanup() is called the cleanup goroutine eventually leaves
\* its loop and terminates, whatever it was doing at that moment: waiting in
\* its select, waiting for the registry lock, or holding it.
C20_CleanupTerminates ==
    (cl.done /\ cl.at \in {"select", "lock", "locked"}) ~> (cl.pc = "exited")

\* C20 witness: Cleanup was called while the loop held the registry lock in
\* the middle of a tick, and the loop has returned.
C20_Witness == cl.done /\ cl.at = "locked" /\ cl.pc = "exited"

\* ------------------------------------------- claims about the whole server

\* C21: every response of the proxy endpoint (200 hit or miss, 204
\* preflight, 400, 429 and 502 alike) carries Access-Control-Allow-Origin: *.
C21_CORSOnEveryResponse ==
    \A r \in Reqs : Done(r) => req[r].hdr.cors = "*"

\* Every response the proxy handler itself writes carries the header.
C21_CORSFromHandler ==
    \A r \in Reqs : (Done(r) /\ req[r].status # 429) => req[r].hdr.cors = "*"

\* The number a setting of RATE_LIMIT stands for.
C22_Value(value) == CASE value = "1" -> 1 [] value = "2" -> 2

\* C22: RATE_LIMIT is the refill rate: set to a positive number r, every
\* bucket refills at r (at the default when it is not set), so that a client
\* that has used up its burst is admitted again after a while.
C22_RateLimitIsRefillRate ==
    /\ rate = IF env.RATE_LIMIT = "" THEN DefaultRate
              ELSE C22_Value(env.RATE_LIMIT)
    /\ \A i \in DOMAIN heap : heap[i].limit = rate
    /\ \A ip \in IPs : \A i \in DOMAIN calls[ip] :
          (i > 1 /\ calls[ip][i].at >= calls[ip][i - 1].at + Scale) =>
              calls[ip][i].ok

\* What a set RATE_LIMIT gives: the rate is 0 or the default; at rate 0 no
\* bucket is ever refilled, and an identity gets its burst and nothing more.
C22_RateLimitIgnored ==
    /\ env.RATE_LIMIT # "" => rate \in {0, DefaultRate}
    /\ rate = 0 =>
          \A ip \in IPs : \A i \in DOMAIN calls[ip] :
              calls[ip][i].ok <=> i <= burst

\* ------------------------------------------- claims about the token count

\* Every bucket holds between 0 and B tokens, as stored and as counted now.
C23_InRange ==
    \A i \in DOMAIN heap :
        /\ 0 <= heap[i].tokens /\ heap[i].tokens <= heap[i].burst * Scale
        /\ 0 <= Tokens(heap[i], now) /\ Tokens(heap[i], now) <= heap[i].burst * Scale

\* A step in which goroutine p's Allow takes effect changes the count of its
\* bucket by exactly one token if the call is admitted and not at all if it
\* is denied.
C23_AllowStep ==
    \A p \in Procs :
        (pc[p] = "allow" /\ pc'[p] = "idle") =>
            LET ok == calls'[arg[p]][Len(calls'[arg[p]])].ok
            IN  Tokens(heap'[lim[p]], now) =
                   Tokens(heap[lim[p]], now) - (IF ok THEN Scale ELSE 0)

\* C23: in every reachable state every bucket's token count is between 0 and
\* B: refill never raises it above the burst, an admitted call lowers it by
\* exactly 1 and a denied call leaves it unchanged.
C23_TokensInRange == [](C23_InRange) /\ [][C23_AllowStep]_vars

\* C23 witness: an identity was denied and later admitted, which emptied its
\* bucket, and the bucket has since refilled to the burst.
C23_Witness ==
    \E ip \in IPs :
        /\ \E i, j \in DOMAIN calls[ip] : i < j /\ ~calls[ip][i].ok /\ calls[ip][j].ok
        /\ limiters[ip] # NoLimiter
        /\ LET l == heap[limiters[ip]]
           IN  /\ l.tokens = 0
               /\ Tokens(l, now) = l.burst * Scale

\* ------------------------------------------- claims about the registry

\* The identities that have a bucket in the registry.
C24_Keys == {ip \in IPs : limiters[ip] # NoLimiter}

\* A cleanup tick: a registry of more than the threshold is replaced by an
\* empty one; a smaller one, and every bucket, is left as it is.
C24_TickStep ==
    (cl.pc = "locked" /\ cl'.pc = "select") =>
        IF Cardinality(C24_Keys) > ClearAbove
        THEN limiters' = [ip \in IPs |-> NoLimiter] /\ heap' = heap
        ELSE limiters' = limiters /\ heap' = heap

\* Any other step that changes the registry files a new bucket under one
\* identity that had none, for a goroutine called with that identity.
C24_CreateStep ==
    (limiters' # limiters /\ ~(cl.pc = "locked" /\ cl'.pc = "select")) =>
        \E ip \in IPs \ C24_Keys :
            /\ limiters'[ip] = Len(heap) + 1
            /\ heap' = Append(heap, CreateLimiter)
            /\ \A other \in IPs \ {ip} : limiters'[other] = limiters[other]
            /\ \E p \in Procs : pc[p] = "create" /\ arg[p] = ip

\* C24: on each cleanup tick the registry is replaced by an empty one if it
\* holds more than the threshold, and otherwise it and its buckets are left
\* unchanged; apart from such a clear the only change to the registry's key
\* set is the creation of a bucket for an unseen identity.
C24_CleanupFrame == [][C24_TickStep /\ C24_CreateStep]_vars

\* C24 witness: a tick has cleared a registry that had outgrown the
\* threshold, and an identity has since been given a new bucket.
C24_Witness ==
    /\ Cardinality(C24_Keys) = 1
    /\ Len(heap) > ClearAbove + 1
    /\ cl.pc = "select"

\* The calls of a history admitted at a time from t1 to t2.
C27_AdmittedIn(L, t1, t2) ==
    Cardinality({i \in DOMAIN L : L[i].ok /\ t1 <= L[i].at /\ L[i].at <= t2})

\* C27: for every identity and every interval of length T, across every
\* interleaving of Allow calls and cleanup ticks, a tick that clears the
\* registry included, the admitted requests of the identity number at most
\* B + R*T.
C27_BoundOverRuns ==
    \A ip \in IPs : \A t1 \in 1..now : \A t2 \in t1..now :
        C27_AdmittedIn(calls[ip], t1, t2) * Scale
            <= burst * Scale + rate * (t2 - t1)

\* C28: the handler bounds the bytes it reads: no body longer than the
\* maximum response size is stored in the cache or returned to the client,
\* also when the upstream declares no Content-Length.
C28_BodyIsBounded ==
    /\ \A u \in URLStrings :
          (EntryOf(u) # <<>> /\ EntryOf(u)[1].origin.by = "handler") =>
              Len(EntryOf(u)[1].origin.body) <= MaxSize
    /\ \A r \in Reqs :
          (Done(r) /\ req[r].status = 200) => Len(req[r].body) <= MaxSize

\* A body over the maximum gets through only when its length was not
\* declared.
C28_DeclaredIsBounded ==
    \A r \in Reqs :
        (Done(r) /\ req[r].hdr.xcache = "MISS" /\ Len(req[r].body) > MaxSize) =>
            ~req[r].hist.up[1].declared

\* ------------------------------------------- claims about a request's course

\* The courses a request can take, as the steps it went through, with the
\* status each one ends in.
C26_Courses ==
    {[trace |-> <<"allow">>, status |-> 429],
     [trace |-> <<"allow", "preflight">>, status |-> 204],
     [trace |-> <<"allow", "param">>, status |-> 400],
     [trace |-> <<"allow", "param", "validate">>, status |-> 400],
     [trace |-> <<"allow", "param", "validate", "lookup">>, status |-> 200],
     [trace |-> <<"allow", "param", "validate", "lookup", "fetch">>, status |-> 502],
     [trace |-> <<"allow", "param", "validate", "lookup", "fetch", "store">>,
      status |-> 200]}

\* A request that has its response took one of the courses, with a status
\* among the named ones; a 200 is a HIT straight from the lookup or a MISS
\* after the store.
C26_Terminal(statuses) ==
    \A r \in Reqs : Done(r) =>
        /\ req[r].status \in statuses
        /\ [trace |-> req[r].trace, status |-> req[r].status] \in C26_Courses
        /\ req[r].status = 200 =>
              req[r].hdr.xcache = (IF Did(req[r], "store") THEN "MISS" ELSE "HIT")

\* A status once written stays as it is until the handler returns, and a
\* handler that has written it takes no further step.
C26_OneStatus ==
    \A r \in Reqs :
        /\ (req[r].status # 0 /\ req'[r].status # req[r].status) =>
              (Done(r) /\ req'[r] = IdleReq)
        /\ req[r].status # 0 <=> Done(r)

\* Every request in a handler's hands gets its response.
C26_Ends ==
    \A r \in Reqs : (req[r].pc \in {"serve", "fetch"}) ~> Done(r)

\* C26 as stated: every request eventually reaches exactly one terminal
\* outcome, Responded (200, HIT or MISS) or Rejected (429, 400 or 502), and
\* writes exactly one status; its steps follow the order admission gate, url
\* parameter check, URL validation, cache lookup, upstream fetch, cache
\* store, none repeated and none taken after a rejection.
C26_OneOutcome ==
    /\ [](C26_Terminal({200, 400, 429, 502}))
    /\ [][C26_OneStatus]_vars
    /\ C26_Ends

\* C26 amended: the same, with the 204 that answers a preflight among the
\* Responded outcomes.
C26_OneOutcomeOrPreflight ==
    /\ [](C26_Terminal({200, 204, 400, 429, 502}))
    /\ [][C26_OneStatus]_vars
    /\ C26_Ends

\* C26 witness: a request went all the way through fetch and store, and the
\* next one, a preflight, has been answered 204.
C26_Witness ==
    \E r \in Reqs :
        /\ Done(r) /\ req[r].status = 204 /\ req[r].trace = <<"allow", "preflight">>
        /\ EntryOf("https://example.com") # <<>>
        /\ EntryOf("https://example.com")[1].origin.by = "handler"

\* ------------------------------------------- claims about racing requests

\* The requests that have their response: returned, or about to.
C25_Finished ==
    {cx.log[i] : i \in DOMAIN cx.log} \cup {req[r] : r \in {r \in Reqs : Done(r)}}

\* Those of them that stored what they fetched.
C25_Writers == {q \in C25_Finished : Did(q, "store") /\ ~q.hist.setErr}

\* What a request stored, as Get gives it back.
C25_Stored(q) ==
    [found |-> TRUE, err |-> FALSE, data |-> q.body,
     contentType |-> CoerceUTF8(q.hdr.contentType)]

\* C25: there is no single-flight: each of the concurrent admitted requests
\* for one uncached url that misses the cache makes its own upstream fetch
\* and writes the key; when all have finished the cache holds one entry for
\* the url, equal in full (body and content type together) to what one of
\* them stored; a Get racing the writes returns a miss or one complete
\* stored value, never a mixture.
C25_NoSingleFlight ==
    /\ \A q \in C25_Finished :
          (Did(q, "lookup") /\ q.hdr.xcache # "HIT") => q.hist.up # <<>>
    /\ \A q \in C25_Finished :
          (Did(q, "store") /\ ~q.hist.live /\ ~q.hist.getErr) => q.hdr.xcache = "MISS"
    /\ \A k \in CacheKeys \ {GenerateCacheKey(RaceURL)} : db[k] = <<>>
    /\ ((\A r \in Reqs : req[r].pc = "idle") /\ C25_Writers # {}) =>
          /\ EntryOf(RaceURL) # <<>>
          /\ \E q \in C25_Writers :
                EntryOf(RaceURL)[1].val =
                    Marshal([Data |-> q.body, ContentType |-> q.hdr.contentType])
    /\ (cx.last.op = "get" /\ ~cx.last.fault) =>
          \/ cx.last.res[1] = C12_Miss
          \/ \E q \in C25_Writers : cx.last.res[1] = C25_Stored(q)

\* C25 witness: two requests have both missed with an empty cache, both
\* have fetched and stored, what they stored differing in body and in content
\* type, and a Get since has returned one of the two.
C25_Witness ==
    /\ \A r \in Reqs : req[r].pc = "idle"
    /\ Len(cx.log) = 2
    /\ \A i \in 1..2 : cx.log[i] \in C25_Writers /\ ~cx.log[i].hist.live
    /\ cx.log[1].hist.up[1].status = 404
    /\ cx.log[2].hist.up[1].status = 200
    /\ cx.log[1].hdr.contentType # cx.log[2].hdr.contentType
    /\ cx.last.op = "get" /\ cx.last.res[1].found

====
